---- MODULE Spec2Model ----
(***************************************************************************)
(* A model of the sandboxed execution and artifact pipeline of cellbyte:   *)
(*   src/assistant/session_manager.py  (SessionManager: Interaction Log,   *)
(*                                      Artifact Registry, persistence)    *)
(*   src/assistant/code_executor.py    (CodeExecutor: both backends and    *)
(*                                      the output collector)              *)
(*                                                                         *)
(* Text is modelled as a sequence of tokens: an identifier such as         *)
(* chart_001 is <<"chart", "_", "0", "0", "1">>, and the string form of a  *)
(* path is its components separated by "/" tokens.  A pathlib.Path is a    *)
(* record holding its parts, so that str(Path) and Path(str) are real      *)
(* conversions.  A Python dict is a sequence of key/value entries in       *)
(* insertion order.                                                        *)
(***************************************************************************)
EXTENDS Integers, Sequences, FiniteSets, TLC

\* ---------------------------------------------------------------- bounds
\* Number of datetime.now() readings (create_artifact, add_interaction,
\* save_session) in one run of the session specifications.
MaxClock == 4
\* Number of add_interaction calls in the Interaction Log specification.
MaxAdds == 7
\* Clock value up to which a manager that loads foreign session files
\* creates artifacts and adds interactions.
MaxDiskClock == 3
\* Number of tokens of a script handed to execute.
MaxScriptLen == 3
\* Clock value up to which the application with session files takes
\* queries, exports and saves.
MaxSessionClock == 4
\* Clock value up to which the application takes queries and exports.
MaxAppClock == 3
\* Number of create_artifact calls made on a fresh registry.
MaxCreates == 10
\* Number of entries a script leaves in the output area when the collection
\* of outputs is examined.
MaxFiles == 3

\* settings.USE_DOCKER_EXECUTION
USE_DOCKER_EXECUTION == FALSE

\* settings.HISTORY_LIMIT
HISTORY_LIMIT == 5

VARIABLES
    interactions,       \* SessionManager.interactions : list of Interaction
    artifacts,          \* SessionManager.artifacts    : dict id -> Artifact
    artifact_counter,   \* SessionManager._artifact_counter
    disk,               \* the session files: file name -> document | NoFile
    now,                \* the clock read by datetime.now()
    ret,                \* outcome of the last SessionManager call
    createdIds,         \* history: identifiers returned by create_artifact
    added,              \* history: arguments of the add_interaction calls
    use_docker,         \* CodeExecutor.use_docker
    sessionDir,         \* names of the files in the session output directory
    run,                \* what happened to the child of the last execute call
    result,             \* what the last execute call returned or raised
    sandboxes,          \* the sandbox directory trees that exist on the disk
    construction,       \* how CodeExecutor.__init__ went
    console             \* what the last command of the application printed

sessionVars == <<interactions, artifacts, artifact_counter, disk, now, ret,
                 createdIds, added>>

execVars == <<use_docker, sessionDir, run, result, sandboxes, construction>>

vars == <<sessionVars, execVars, console>>

Range(s) == {s[i] : i \in DOMAIN s}

\* ------------------------------------------------------------ Python dict
\* A dict is a sequence of entries [key, value] in insertion order.
EmptyDict == <<>>

DictKeys(d) == {d[i].key : i \in DOMAIN d}

DictHas(d, k) == k \in DictKeys(d)

\* d[k] = v : replaces the value in place when the key exists, else appends.
DictSet(d, k, v) ==
    IF DictHas(d, k)
    THEN [i \in DOMAIN d |-> IF d[i].key = k THEN [key |-> k, value |-> v] ELSE d[i]]
    ELSE Append(d, [key |-> k, value |-> v])

\* ------------------------------------------------------- identifier text
DigitChars == <<"0", "1", "2", "3", "4", "5", "6", "7", "8", "9">>

\* str(n) for n >= 0
RECURSIVE Decimal(_)
Decimal(n) ==
    IF n < 10 THEN <<DigitChars[n + 1]>>
    ELSE Decimal(n \div 10) \o <<DigitChars[(n % 10) + 1]>>

\* left-pads with zeros up to width w; longer text is left as it is
RECURSIVE ZeroPad(_, _)
ZeroPad(s, w) == IF Len(s) >= w THEN s ELSE ZeroPad(<<"0">> \o s, w)

\* mutant of FormatArtifactId: the counter is written without padding
FormatArtifactId_Unpadded(artifact_type, n) == <<artifact_type, "_">> \o Decimal(n)

\* f"{artifact_type}_{self._artifact_counter:03d}"
FormatArtifactId(artifact_type, n) == <<artifact_type, "_">> \o ZeroPad(Decimal(n), 3)

\* aid.split('_')[-1] : the text after the last underscore
RECURSIVE LastField(_)
LastField(s) ==
    IF s = <<>> THEN <<>>
    ELSE IF s[Len(s)] = "_" THEN <<>>
    ELSE Append(LastField(SubSeq(s, 1, Len(s) - 1)), s[Len(s)])

\* int(text) is defined on non-empty digit text, and raises ValueError otherwise
IsDecimal(s) == s # <<>> /\ \A i \in DOMAIN s : s[i] \in Range(DigitChars)

DigitValue(c) == CHOOSE d \in 0..9 : DigitChars[d + 1] = c

RECURSIVE IntOf(_)
IntOf(s) ==
    IF s = <<>> THEN 0
    ELSE 10 * IntOf(SubSeq(s, 1, Len(s) - 1)) + DigitValue(s[Len(s)])

\* int(aid.split('_')[-1])
IdSuffix(aid) == IntOf(LastField(aid))

IdSuffixOk(aid) == IsDecimal(LastField(aid))

SetMax(S) == CHOOSE m \in S : \A x \in S : x <= m

\* ------------------------------------------------------------------ paths
\* A pathlib.Path holds its parts; an absolute path has "/" as first part.
MkPath(parts) == [kind |-> "Path", parts |-> parts]

RECURSIVE JoinParts(_)
JoinParts(ps) ==
    IF Len(ps) <= 1 THEN ps
    ELSE <<ps[1], "/">> \o JoinParts(Tail(ps))

\* str(path)
PathToStr(p) ==
    IF p.parts = <<>> THEN <<".">>
    ELSE IF Head(p.parts) = "/" THEN <<"/">> \o JoinParts(Tail(p.parts))
    ELSE JoinParts(p.parts)

IsComponent(t) == t \notin {"/", "."}

\* Path(text) : separators and "." components are dropped, a leading
\* separator is the root
StrToPath(s) ==
    MkPath((IF s # <<>> /\ Head(s) = "/" THEN <<"/">> ELSE <<>>)
           \o SelectSeq(s, IsComponent))

\* ----------------------------------------------------------- dataclasses
ArtifactFields == {"id", "type", "format", "path", "query", "created_at", "metadata"}
ArtifactRequired == ArtifactFields \ {"metadata"}

InteractionFields == {"query", "plan", "code", "result_summary", "artifacts", "timestamp"}
InteractionRequired == {"query", "plan", "code", "result_summary"}

\* Artifact.to_dict : asdict with the path converted to its string form
ArtifactToDict(a) == [a EXCEPT !.path = PathToStr(a.path)]

\* Interaction.to_dict : asdict
InteractionToDict(i) == i

\* Cls(**d) raises TypeError on a missing required or an unexpected keyword
\* mutant of KeywordsOk: a missing keyword is tolerated
KeywordsOk_AllowsMissing(d, required, fields) == DOMAIN d \subseteq fields

KeywordsOk(d, required, fields) ==
    required \subseteq DOMAIN d /\ DOMAIN d \subseteq fields

\* Interaction(**i); the defaults are an empty list and datetime.now()
InteractionFromDict(d, t) ==
    [f \in InteractionFields |->
        IF f \in DOMAIN d THEN d[f]
        ELSE IF f = "artifacts" THEN <<>> ELSE t]

\* mutant of RestorePath: the path is left in its string form
RestorePath_KeepsString(d) == d

\* artifact_data['path'] = Path(artifact_data['path'])
RestorePath(d) == [d EXCEPT !.path = StrToPath(d.path)]

\* Artifact(**artifact_data); metadata defaults to an empty dict
ArtifactFromDict(d) ==
    [f \in ArtifactFields |-> IF f \in DOMAIN d THEN d[f] ELSE EmptyDict]

\* ------------------------------------------------------- input alphabets
Queries == {"q1", "q2"}
\* (artifact_type, file_format, path) arguments handed to create_artifact
ArtifactInputs ==
    {<<"chart", "png", MkPath(<<"/", "outputs", "chart.png">>)>>,
     <<"table", "csv", MkPath(<<"out", "table.csv">>)>>}
\* session file names
FileNames == {"session_a.json", "session_b.json"}

\* ------------------------------------------------------- session documents
\* The content of a session file: missing, text that json.load rejects, or a
\* JSON object.
MissingFile == [state |-> "missing"]
GarbageFile == [state |-> "garbage"]
JsonFile(data) == [state |-> "json", data |-> data]

\* save_session, lines 92-96: the document built from the manager's state
SessionData(ints, arts, t) ==
    [interactions |-> [i \in DOMAIN ints |-> InteractionToDict(ints[i])],
     artifacts    |-> [i \in DOMAIN arts |->
                          [key |-> arts[i].key, value |-> ArtifactToDict(arts[i].value)]],
     saved_at     |-> t]

\* session_data.get(key, default)
GetOr(data, key, default) == IF key \in DOMAIN data THEN data[key] ELSE default

\* one pass of the loop body of lines 115-118 succeeds on this item
ArtifactItemOk(e) ==
    /\ "path" \in DOMAIN e.value
    /\ KeywordsOk(e.value, ArtifactRequired, ArtifactFields)

\* mutant of LoadArtifacts: no item of the document is put into the registry
LoadArtifacts_LoadsNothing(items, acc) ==
    [ok |-> TRUE, dict |-> acc, cause |-> "-"]

\* lines 114-118: fills the registry item by item and stops at the first item
\* that raises; dict is what self.artifacts holds at that point, cause the
\* exception raised
RECURSIVE LoadArtifacts(_, _)
LoadArtifacts(items, acc) ==
    IF items = <<>> THEN [ok |-> TRUE, dict |-> acc, cause |-> "-"]
    ELSE IF ~ArtifactItemOk(Head(items))
    THEN [ok |-> FALSE, dict |-> acc,
          cause |-> IF "path" \in DOMAIN Head(items).value
                    THEN "TypeError" ELSE "KeyError"]
    ELSE LoadArtifacts(Tail(items),
                       DictSet(acc, Head(items).key,
                               ArtifactFromDict(RestorePath(Head(items).value))))

SetMin(S) == CHOOSE m \in S : \A x \in S : m <= x

\* mutant of MaxSuffix: the smallest suffix instead of the largest
MaxSuffix_TakesMin(keys) == IF keys = {} THEN 0 ELSE SetMin({IdSuffix(k) : k \in keys})

\* max([int(aid.split('_')[-1]) for aid in self.artifacts.keys()], default=0)
MaxSuffix(keys) == IF keys = {} THEN 0 ELSE SetMax({IdSuffix(k) : k \in keys})

\* mutant of RestoreCounter: the guard on an empty registry is dropped, so
\* that an empty registry resets the counter to the default of max()
RestoreCounter_ResetsWhenEmpty(arts, counter) ==
    IF \A k \in DictKeys(arts) : IdSuffixOk(k)
    THEN [ok |-> TRUE, counter |-> MaxSuffix(DictKeys(arts))]
    ELSE [ok |-> FALSE, counter |-> counter]

\* mutant of RestoreCounter: the largest suffix is added to the counter
RestoreCounter_Accumulates(arts, counter) ==
    IF arts # EmptyDict
    THEN IF \A k \in DictKeys(arts) : IdSuffixOk(k)
         THEN [ok |-> TRUE, counter |-> counter + MaxSuffix(DictKeys(arts))]
         ELSE [ok |-> FALSE, counter |-> counter]
    ELSE [ok |-> TRUE, counter |-> counter]

\* lines 121-123: the counter after the restore, which is skipped for an
\* empty registry and raises ValueError on a key without a numeric suffix
RestoreCounter(arts, counter) ==
    IF arts # EmptyDict
    THEN IF \A k \in DictKeys(arts) : IdSuffixOk(k)
         THEN [ok |-> TRUE, counter |-> MaxSuffix(DictKeys(arts))]
         ELSE [ok |-> FALSE, counter |-> counter]
    ELSE [ok |-> TRUE, counter |-> counter]

\* load_session, lines 103-125, on a file with the given content, from the
\* manager state cur = [interactions, artifacts, counter] at clock t: the
\* status of the call, the exception the handler of line 124 caught, and the
\* manager state the call leaves behind
LoadSessionOutcome(file, cur, t) ==
    IF file.state = "missing"
    THEN [status |-> "FileNotFoundError", cause |-> "-",
          interactions |-> cur.interactions,
          artifacts |-> cur.artifacts, counter |-> cur.counter]
    ELSE IF file.state = "garbage"
    THEN [status |-> "IOError", cause |-> "JSONDecodeError",
          interactions |-> cur.interactions,
          artifacts |-> cur.artifacts, counter |-> cur.counter]
    ELSE
    LET idicts == GetOr(file.data, "interactions", <<>>)
        items  == GetOr(file.data, "artifacts", <<>>)
    IN  IF \E i \in DOMAIN idicts :
               ~KeywordsOk(idicts[i], InteractionRequired, InteractionFields)
        THEN [status |-> "IOError", cause |-> "TypeError",
              interactions |-> cur.interactions,
              artifacts |-> cur.artifacts, counter |-> cur.counter]
        ELSE
        LET ints   == [i \in DOMAIN idicts |-> InteractionFromDict(idicts[i], t)]
            loaded == LoadArtifacts(items, EmptyDict)
            rc     == RestoreCounter(loaded.dict, cur.counter)
        IN  IF ~loaded.ok
            THEN [status |-> "IOError", cause |-> loaded.cause,
                  interactions |-> ints,
                  artifacts |-> loaded.dict, counter |-> cur.counter]
            ELSE [status |-> IF rc.ok THEN "ok" ELSE "IOError",
                  cause |-> IF rc.ok THEN "-" ELSE "ValueError",
                  interactions |-> ints, artifacts |-> loaded.dict,
                  counter |-> rc.counter]

\* self.interactions[-n:]
LastN(s, n) ==
    IF n = 0 \/ Len(s) <= n THEN s ELSE SubSeq(s, Len(s) - n + 1, Len(s))

\* mutant of TrimHistory: the trim keeps the oldest entries
TrimHistory_KeepsOldest(log) ==
    IF Len(log) > HISTORY_LIMIT THEN SubSeq(log, 1, HISTORY_LIMIT) ELSE log

\* add_interaction, lines 57-61: append, then trim to the configured limit
TrimHistory(log) ==
    IF Len(log) > HISTORY_LIMIT THEN LastN(log, HISTORY_LIMIT) ELSE log

Manager == [interactions |-> interactions, artifacts |-> artifacts,
            counter |-> artifact_counter]

\* the message of an exception: its text, the path and the cause it names
NoMessage == [text |-> "", path |-> "-", cause |-> "-"]

Ret(op, status, file) ==
    [op |-> op, status |-> status, file |-> file, message |-> NoMessage]

\* f"Session file not found: {filepath}" (line 106) and
\* f"Failed to load or parse session file {filepath}. Error: {e}" (line 125)
LoadSessionMessage(status, filepath, cause) ==
    CASE status = "FileNotFoundError" ->
             [text |-> "Session file not found", path |-> filepath, cause |-> "-"]
      [] status = "IOError" ->
             [text |-> "Failed to load or parse session file", path |-> filepath,
              cause |-> cause]
      [] OTHER -> NoMessage

\* ------------------------------------------------------------ CodeExecutor
\* settings.CODE_EXECUTION_TIMEOUT, in seconds
CODE_EXECUTION_TIMEOUT == 60
\* the grace period added to the timeout of the container backend
DOCKER_GRACE == 30

\* the timeout handed to subprocess.run by each backend
BackendTimeout(docker) ==
    IF docker THEN CODE_EXECUTION_TIMEOUT + DOCKER_GRACE ELSE CODE_EXECUTION_TIMEOUT

\* ExecutionResult.error : None, or a description
None == [kind |-> "none", text |-> "", seconds |-> 0]

\* f"Execution timed out after {settings.CODE_EXECUTION_TIMEOUT}s" and its
\* container variant
TimeoutError(docker) ==
    [kind |-> "timeout",
     text |-> IF docker THEN "Docker execution timed out after"
              ELSE "Execution timed out after",
     seconds |-> CODE_EXECUTION_TIMEOUT]

\* f"Subprocess execution error: {e}" and its container variant
ExecutionError(docker) ==
    [kind |-> "error",
     text |-> IF docker THEN "Docker execution error" ELSE "Subprocess execution error",
     seconds |-> 0]

ExecutionResult(success, stdout, stderr, output_files, error) ==
    [kind |-> "result", success |-> success, stdout |-> stdout, stderr |-> stderr,
     output_files |-> output_files, error |-> error]

\* execute did not return: an exception left it
RaisedException ==
    [kind |-> "raised", success |-> FALSE, stdout |-> "", stderr |-> "",
     output_files |-> EmptyDict, error |-> None]

\* no execute call was made yet
NoResult ==
    [kind |-> "none", success |-> FALSE, stdout |-> "", stderr |-> "",
     output_files |-> EmptyDict, error |-> None]

\* the session output directory handed to execute as session_output_dir
SessionOutputDir == MkPath(<<"/", "outputs", "session_1">>)

\* dest_dir / file_path.name
JoinPath(dir, name) == MkPath(Append(dir.parts, name))

\* An entry of the sandbox output area: its name, the suffix of the name, and
\* whether it is a regular file.
OutFile(name, suffix) == [name |-> name, suffix |-> suffix, is_file |-> TRUE]
OutDir(name) == [name |-> name, suffix |-> "", is_file |-> FALSE]

ChartPng == OutFile("chart.png", ".png")
PhotoJpg == OutFile("PHOTO.JPG", ".JPG")
TableCsv == OutFile("table.csv", ".csv")
TableXlsx == OutFile("table.xlsx", ".xlsx")
PlotsDir == OutDir("plots")
DataCsv == OutFile("data.csv", ".csv")
NotesTxt == OutFile("notes.txt", ".txt")
Readme == OutFile("README", "")
PlotPng == OutFile("plot.PNG", ".PNG")

\* the entries a script may write when the classification is examined
OutputEntries ==
    {ChartPng, PlotPng, PhotoJpg, TableCsv, DataCsv, TableXlsx, NotesTxt, Readme,
     PlotsDir}

\* the output areas with at most MaxFiles entries
OutputAreas == {w \in SUBSET OutputEntries : Cardinality(w) <= MaxFiles}

\* what a script may leave in the output area
WrittenSets ==
    {{}, {ChartPng}, {TableCsv}, {ChartPng, TableCsv}, {TableCsv, TableXlsx},
     {PhotoJpg, PlotsDir}}

\* str.lower() on the suffixes that occur
Lower(suffix) ==
    CASE suffix = ".JPG" -> ".jpg"
      [] suffix = ".PNG" -> ".png"
      [] OTHER -> suffix

\* type_map of _collect_output_files
type_map ==
    [x \in {".png", ".jpg", ".csv", ".xlsx"} |->
        IF x \in {".png", ".jpg"} THEN "chart" ELSE "table"]

\* mutant of Classify: the table has no entry for .xlsx
Classify_WithoutXlsx(suffix) ==
    IF Lower(suffix) \in {".png", ".jpg"} THEN "chart"
    ELSE IF Lower(suffix) = ".csv" THEN "table" ELSE "file"

\* type_map.get(file_path.suffix.lower(), 'file')
Classify(suffix) ==
    IF Lower(suffix) \in DOMAIN type_map THEN type_map[Lower(suffix)] ELSE "file"

\* mutant of CollectOutputFiles: the first file of a classification keeps
\* its entry of the mapping
RECURSIVE CollectOutputFiles_FirstWins(_, _, _, _)
CollectOutputFiles_FirstWins(listing, failing, output_files, moved) ==
    IF listing = <<>>
    THEN [raised |-> FALSE, output_files |-> output_files, moved |-> moved]
    ELSE LET file_path == Head(listing)
         IN  IF ~file_path.is_file
             THEN CollectOutputFiles_FirstWins(Tail(listing), failing, output_files, moved)
             ELSE IF file_path \in failing
             THEN [raised |-> TRUE, output_files |-> output_files, moved |-> moved]
             ELSE CollectOutputFiles_FirstWins(
                      Tail(listing), failing,
                      IF DictHas(output_files, Classify(file_path.suffix))
                      THEN output_files
                      ELSE DictSet(output_files, Classify(file_path.suffix),
                                   JoinPath(SessionOutputDir, file_path.name)),
                      moved \cup {file_path.name})

\* _collect_output_files, lines 130-139, over the directory listing in the
\* order iterdir() yields it; the move of an entry of `failing` raises.
\* raised: the exception left the loop; moved: the names moved before that.
RECURSIVE CollectOutputFiles(_, _, _, _)
CollectOutputFiles(listing, failing, output_files, moved) ==
    IF listing = <<>>
    THEN [raised |-> FALSE, output_files |-> output_files, moved |-> moved]
    ELSE LET file_path == Head(listing)
         IN  IF ~file_path.is_file
             THEN CollectOutputFiles(Tail(listing), failing, output_files, moved)
             ELSE IF file_path \in failing
             THEN [raised |-> TRUE, output_files |-> output_files, moved |-> moved]
             ELSE CollectOutputFiles(
                      Tail(listing), failing,
                      DictSet(output_files, Classify(file_path.suffix),
                              JoinPath(SessionOutputDir, file_path.name)),
                      moved \cup {file_path.name})

\* The sandbox tree as the with-block of the call leaves it: the output area
\* holds what the child wrote and shutil.move did not take away.  No tree
\* exists when tempfile.TemporaryDirectory() itself could not be entered.
SandboxTree(env, moved) ==
    [output |-> {f \in env.written : f.name \notin moved}]

\* The text of a script is a sequence of tokens: the two quote characters,
\* the two placeholder roots, and other text.
Placeholders == {"/data/", "/output/"}
ScriptTokens == {"'", "\""} \cup Placeholders \cup {"x"}

\* a script without quotes and placeholders
PlainCode == <<"x">>

\* str(temp_path / "data") and str(temp_path / "output") of a sandbox
DataDir == "/tmp/sandbox/data"
OutputDir == "/tmp/sandbox/output"

\* code.replace(quote + placeholder, "r" + quote + str(dir) + "/"), lines
\* 122-125: every non-overlapping occurrence, from the left
RECURSIVE ReplaceReference(_, _, _, _)
ReplaceReference(code, quote, placeholder, dir) ==
    IF Len(code) < 2 THEN code
    ELSE IF code[1] = quote /\ code[2] = placeholder
    THEN <<"r", quote, dir, "/">> \o
         ReplaceReference(SubSeq(code, 3, Len(code)), quote, placeholder, dir)
    ELSE <<code[1]>> \o ReplaceReference(Tail(code), quote, placeholder, dir)

\* _prepare_code_for_local_execution
PrepareCodeForLocalExecution(code, data_dir, output_dir) ==
    ReplaceReference(
        ReplaceReference(
            ReplaceReference(
                ReplaceReference(code, "'", "/data/", data_dir),
                "\"", "/data/", data_dir),
            "'", "/output/", output_dir),
        "\"", "/output/", output_dir)

\* the text written to execute.py in the sandbox: line 49 rewrites it on the
\* local backend, line 89 writes the code as it came
WrittenScript(docker, code) ==
    IF docker THEN code ELSE PrepareCodeForLocalExecution(code, DataDir, OutputDir)

\* What the last call did: the backend used, whether the sandbox was set up,
\* the fate of the child process, what the child left in the output area, the
\* order in which it was listed, the moves that raised and the names moved.
RunFacts(docker, child, env, moved) ==
    [backend |-> IF docker THEN "docker" ELSE "subprocess",
     setup_ok |-> env.setup_ok,
     child |-> child,
     elapsed |-> env.elapsed,
     exit_code |-> IF child = "exited" THEN env.exit_code ELSE -1,
     stdout |-> IF child = "exited" THEN env.stdout ELSE "",
     stderr |-> IF child = "exited" THEN env.stderr ELSE "",
     written |-> IF child \in {"exited", "killed"} THEN env.written ELSE {},
     listing |-> IF child = "exited" THEN env.listing ELSE <<>>,
     failing |-> IF child = "exited" THEN env.failing ELSE {},
     moved |-> moved,
     output_area |-> SandboxTree(env, moved).output,
     code |-> env.code,
     script |-> IF env.setup_ok THEN WrittenScript(docker, env.code) ELSE <<>>]

\* mutant of TimeoutOutcome: the output area is collected on a timeout too
TimeoutOutcome_CollectsPartial(docker, env, dir) ==
    LET got == CollectOutputFiles(env.listing, {}, EmptyDict, {})
    IN  [result |-> ExecutionResult(FALSE, "", "", got.output_files, TimeoutError(docker)),
         dir |-> dir \cup got.moved,
         run |-> RunFacts(docker, "killed", env, got.moved)]

\* except subprocess.TimeoutExpired (lines 71-72, 115-116): subprocess.run has
\* killed the child; nothing is collected
TimeoutOutcome(docker, env, dir) ==
    [result |-> ExecutionResult(FALSE, "", "", EmptyDict, TimeoutError(docker)),
     dir |-> dir,
     run |-> RunFacts(docker, "killed", env, {})]

\* mutant of CompletedOutcome: success does not depend on the exit status
CompletedOutcome_AlwaysSuccess(docker, env, dir) ==
    LET got == CollectOutputFiles(env.listing, env.failing, EmptyDict, {})
    IN  [result |-> IF got.raised
                    THEN ExecutionResult(FALSE, "", "", EmptyDict, ExecutionError(docker))
                    ELSE ExecutionResult(TRUE, env.stdout, env.stderr,
                                         got.output_files, None),
         dir |-> dir \cup got.moved,
         run |-> RunFacts(docker, "exited", env, got.moved)]

\* lines 64-70 and 73-74 (108-114 and 117-118): the child has exited; the
\* outputs are collected inside the try block, so that an exception of a
\* move is caught by `except Exception`
CompletedOutcome(docker, env, dir) ==
    LET got == CollectOutputFiles(env.listing, env.failing, EmptyDict, {})
    IN  [result |-> IF got.raised
                    THEN ExecutionResult(FALSE, "", "", EmptyDict, ExecutionError(docker))
                    ELSE ExecutionResult(env.exit_code = 0, env.stdout, env.stderr,
                                         got.output_files, None),
         dir |-> dir \cup got.moved,
         run |-> RunFacts(docker, "exited", env, got.moved)]

\* _execute_subprocess / _execute_docker in the environment env:
\*   setup_ok   the sandbox directories, dataset copies and script were written
\*   launch_ok  subprocess.run could start the child
\*   elapsed    the seconds the child needs
\*   exit_code, stdout, stderr   how the child ends when it is not killed
\*   written    the entries the child leaves in the output area
\*   listing    the order in which iterdir() yields them
\*   failing    the entries whose move raises
ExecuteOutcome(docker, env, dir) ==
    IF ~env.setup_ok
    THEN [result |-> RaisedException, dir |-> dir,
          run |-> RunFacts(docker, "none", env, {})]
    ELSE IF ~env.launch_ok
    THEN [result |-> ExecutionResult(FALSE, "", "", EmptyDict, ExecutionError(docker)),
          dir |-> dir,
          run |-> RunFacts(docker, "not_launched", env, {})]
    ELSE IF env.elapsed > BackendTimeout(docker)
    THEN TimeoutOutcome(docker, env, dir)
    ELSE CompletedOutcome(docker, env, dir)

\* mutant of TemporaryDirectoryExit: the tree is removed only when the block
\* is left without a timeout (cleanup written at the end of the try block)
TemporaryDirectoryExit_KeepsOnTimeout(tree, r) ==
    IF r.child = "killed" THEN {tree} ELSE {}

\* `with tempfile.TemporaryDirectory() as temp_dir` (lines 41, 78): leaving
\* the block, by return or by exception, removes the tree; the result is the
\* set of trees the call leaves on the disk
TemporaryDirectoryExit(tree, r) == {}

\* CodeExecutor.__init__ has run and has selected a backend
ExecutorIdle(docker) ==
    /\ use_docker = docker
    /\ sessionDir = {}
    /\ run = [backend |-> "-", setup_ok |-> TRUE, child |-> "none", elapsed |-> 0,
              exit_code |-> -1, stdout |-> "", stderr |-> "", written |-> {},
              listing |-> <<>>, failing |-> {}, moved |-> {}, output_area |-> {},
              code |-> <<>>, script |-> <<>>]
    /\ result = NoResult
    /\ sandboxes = {}

\* what `docker --version` may do within the five seconds it is given, and
\* an error of the operating system other than a missing binary
ProbeOutcomes ==
    {"version_printed", "nonzero_exit", "missing_binary", "timeout", "permission_denied"}

\* mutant of CheckDockerAvailable: the exit status is not checked
CheckDockerAvailable_Unchecked(probe) ==
    CASE probe \in {"version_printed", "nonzero_exit"} -> "True"
      [] probe \in {"missing_binary", "timeout"} -> "False"
      [] OTHER -> "raised"

\* check_docker_available: True when the command ran and exited with zero,
\* False on CalledProcessError, FileNotFoundError and TimeoutExpired; any
\* other exception leaves the method
CheckDockerAvailable(probe) ==
    CASE probe = "version_printed" -> "True"
      [] probe \in {"nonzero_exit", "missing_binary", "timeout"} -> "False"
      [] OTHER -> "raised"

\* CodeExecutor.__init__ with settings.USE_DOCKER_EXECUTION = preference in
\* an environment where the probe would end as `probe`; the probe is run only
\* when the preference is set.  ok: the constructor returned; warned: the
\* fallback warning was printed.
CodeExecutorInit(preference, probe) ==
    LET probed == IF preference THEN CheckDockerAvailable(probe) ELSE "not_run"
    IN  /\ construction = [preference |-> preference,
                           probe |-> IF preference THEN probe ELSE "not_run",
                           ok |-> probed # "raised",
                           warned |-> probed = "False"]
        /\ ExecutorIdle(preference /\ probed = "True")

\* CodeExecutor.execute
Execute(env) ==
    LET out == ExecuteOutcome(use_docker, env, sessionDir)
    IN  /\ construction.ok
        /\ result' = out.result
        /\ sessionDir' = out.dir
        /\ run' = out.run
        /\ sandboxes' = sandboxes \cup
               TemporaryDirectoryExit(SandboxTree(env, out.run.moved), out.run)
        /\ UNCHANGED <<use_docker, construction, sessionVars, console>>

\* the seconds a child may need: within both timeouts, beyond the timeout of
\* the local backend only, beyond both
Durations ==
    {1, CODE_EXECUTION_TIMEOUT + 1, CODE_EXECUTION_TIMEOUT + DOCKER_GRACE + 1}

\* how a child may end
ChildEndings ==
    {[exit_code |-> 0, stdout |-> "rows: 5", stderr |-> ""],
     [exit_code |-> 0, stdout |-> "", stderr |-> "warning"],
     [exit_code |-> 1, stdout |-> "", stderr |-> "Traceback"]}

\* the orders in which iterdir() may yield the entries
Listings(S) ==
    {l \in [1..Cardinality(S) -> S] : \A x \in S : \E i \in DOMAIN l : l[i] = x}

Env(setup_ok, launch_ok, elapsed, ending, written, listing, failing) ==
    [setup_ok |-> setup_ok, launch_ok |-> launch_ok, elapsed |-> elapsed,
     exit_code |-> ending.exit_code, stdout |-> ending.stdout,
     stderr |-> ending.stderr, written |-> written, listing |-> listing,
     failing |-> failing, code |-> PlainCode]

NoEnding == [exit_code |-> -1, stdout |-> "", stderr |-> ""]

\* the sandbox could not be set up
ExecuteSetupFails == Execute(Env(FALSE, FALSE, 0, NoEnding, {}, <<>>, {}))

\* the child could not be started
ExecuteLaunchFails == Execute(Env(TRUE, FALSE, 0, NoEnding, {}, <<>>, {}))

\* the child was started
ExecuteRuns ==
    \E d \in Durations, e \in ChildEndings, w \in WrittenSets :
        \E l \in Listings(w), f \in {{}} \cup {{x} : x \in {y \in w : y.is_file}} :
            Execute(Env(TRUE, TRUE, d, e, w, l, f))

\* ------------------------------------------------- SessionManager actions
\* SessionManager.__init__ ; no call made yet
ManagerInit ==
    /\ interactions = <<>>
    /\ artifacts = EmptyDict
    /\ artifact_counter = 0
    /\ now = 0
    /\ ret = Ret("init", "ok", "-")
    /\ createdIds = <<>>
    /\ added = <<>>

\* SessionManager.add_interaction
AddInteraction(query, plan, code, result_summary, artifact_ids) ==
    LET interaction == [query |-> query, plan |-> plan, code |-> code,
                        result_summary |-> result_summary,
                        artifacts |-> artifact_ids, timestamp |-> now]
    IN  /\ interactions' = TrimHistory(Append(interactions, interaction))
        /\ added' = Append(added, interaction)
        /\ now' = now + 1
        /\ ret' = Ret("add_interaction", "ok", "-")
        /\ UNCHANGED <<artifacts, artifact_counter, disk, createdIds, execVars, console>>

\* SessionManager.create_artifact
CreateArtifact(artifact_type, file_format, path, query) ==
    LET counter     == artifact_counter + 1
        artifact_id == FormatArtifactId(artifact_type, counter)
        artifact    == [id |-> artifact_id, type |-> artifact_type,
                        format |-> file_format, path |-> path, query |-> query,
                        created_at |-> now, metadata |-> EmptyDict]
    IN  /\ artifact_counter' = counter
        /\ artifacts' = DictSet(artifacts, artifact_id, artifact)
        /\ createdIds' = Append(createdIds, artifact_id)
        /\ now' = now + 1
        /\ ret' = Ret("create_artifact", "ok", "-")
        /\ UNCHANGED <<interactions, disk, added, execVars, console>>

\* SessionManager.save_session, the file is written
SaveSession(filepath) ==
    /\ disk' = [disk EXCEPT ![filepath] =
                    JsonFile(SessionData(interactions, artifacts, now))]
    /\ now' = now + 1
    /\ ret' = Ret("save_session", "ok", filepath)
    /\ UNCHANGED <<interactions, artifacts, artifact_counter, createdIds, added, execVars, console>>

\* SessionManager.save_session, open() raises: IOError, nothing is written
SaveSessionFails(filepath) ==
    /\ now' = now + 1
    /\ ret' = Ret("save_session", "IOError", filepath)
    /\ UNCHANGED <<interactions, artifacts, artifact_counter, disk, createdIds, added,
                   execVars, console>>

\* SessionManager.load_session
LoadSession(filepath) ==
    LET out == LoadSessionOutcome(disk[filepath], Manager, now)
    IN  /\ interactions' = out.interactions
        /\ artifacts' = out.artifacts
        /\ artifact_counter' = out.counter
        /\ ret' = [Ret("load_session", out.status, filepath) EXCEPT
                      !.message = LoadSessionMessage(out.status, filepath, out.cause)]
        /\ UNCHANGED <<disk, now, createdIds, added, execVars, console>>

\* the artifact_ids arguments tried: none, or every identifier of the registry
ArtifactIdLists == {<<>>, [i \in DOMAIN artifacts |-> artifacts[i].key]}

SomeAddInteraction ==
    \E q \in Queries, ids \in ArtifactIdLists :
        AddInteraction(q, "plan", "code", "summary", ids)

SomeCreateArtifact ==
    \E a \in ArtifactInputs :
        CreateArtifact(a[1], a[2], a[3], "q1")

\* ------------------------------------------------------ ChatWithDataApp
\* str.join of the tokens of a text
RECURSIVE Concat(_)
Concat(tokens) == IF tokens = <<>> THEN "" ELSE Head(tokens) \o Concat(Tail(tokens))

\* the stems and suffixes of the file names that occur: the names a script
\* writes, and the names built from an artifact identifier
ArtifactTypes == {"chart", "table", "file"}
MaxIdNumber == MaxAppClock + 3
Stems ==
    {"chart", "plot", "PHOTO", "table", "data", "notes", "README"} \cup
    {Concat(FormatArtifactId(k, n)) : k \in ArtifactTypes, n \in 1..MaxIdNumber}
Suffixes == {".png", ".PNG", ".JPG", ".csv", ".xlsx", ".txt", ""}

\* the name of a path and its split at the last dot
PathName(path) == path.parts[Len(path.parts)]
NameTable ==
    [name \in {e[1] \o e[2] : e \in Stems \X Suffixes} |->
        CHOOSE e \in Stems \X Suffixes : e[1] \o e[2] = name]
SplitName(name) == NameTable[name]

\* Path.suffix
PathSuffix(path) == SplitName(PathName(path))[2]

\* Path.with_suffix(suffix)
PathWithSuffix(path, suffix) ==
    MkPath(SubSeq(path.parts, 1, Len(path.parts) - 1) \o
           <<SplitName(PathName(path))[1] \o suffix>>)

\* suffix.lstrip('.')
LStripDot(suffix) ==
    IF suffix = "" THEN ""
    ELSE CHOOSE fmt \in {"png", "PNG", "JPG", "csv", "xlsx", "txt"} : "." \o fmt = suffix

\* Path.exists() for a path, when the session output directory holds the
\* names of dir and nothing else exists
PathExists(path, dir) == \E name \in dir : path = JoinPath(SessionOutputDir, name)

\* what a command printed: the rows of the artifact table, the message, and
\* the selection the user typed
Output(command, rows, message, choice) ==
    [command |-> command, rows |-> rows, message |-> message, choice |-> choice]

NoOutput == Output("-", <<>>, "", <<>>)

\* process_query, lines 182-193: the artifacts of a successful execution are
\* registered one by one in the order of result.output_files; each file is
\* renamed to the identifier of its artifact.  st holds the registry, the
\* counter, the directory, the clock, the identifiers collected and issued;
\* the rename of a path in rename_failing raises and ends the loop.
RECURSIVE RegisterOutputs(_, _, _, _)
RegisterOutputs(items, query, rename_failing, st) ==
    IF items = <<>> THEN st
    ELSE LET file_type == Head(items).key
             file_path == Head(items).value
             suffix    == PathSuffix(file_path)
             counter   == st.counter + 1
             id        == FormatArtifactId(file_type, counter)
             artifact  == [id |-> id, type |-> file_type, format |-> LStripDot(suffix),
                           path |-> file_path, query |-> query,
                           created_at |-> st.now, metadata |-> EmptyDict]
             new_path  == JoinPath(SessionOutputDir, Concat(id) \o suffix)
         IN  IF file_path \in rename_failing \/ ~PathExists(file_path, st.dir)
             THEN [st EXCEPT !.artifacts = DictSet(st.artifacts, id, artifact),
                             !.counter = counter,
                             !.now = st.now + 1,
                             !.created = Append(st.created, id),
                             !.raised = TRUE]
             ELSE RegisterOutputs(
                      Tail(items), query, rename_failing,
                      [artifacts |-> DictSet(st.artifacts, id,
                                             [artifact EXCEPT !.path = new_path]),
                       counter |-> counter,
                       dir |-> (st.dir \ {PathName(file_path)}) \cup {PathName(new_path)},
                       now |-> st.now + 1,
                       ids |-> Append(st.ids, id),
                       created |-> Append(st.created, id),
                       raised |-> FALSE])

\* f"ERROR: {result.error}"
ErrorSummary(error) == IF error = None THEN "ERROR: None" ELSE "ERROR: " \o error.text

\* An interaction as add_interaction builds it at clock t
NewInteraction(query, result_summary, artifact_ids, t) ==
    [query |-> query, plan |-> "plan", code |-> "code",
     result_summary |-> result_summary, artifacts |-> artifact_ids, timestamp |-> t]

\* process_query, for a query the intent detection classifies as intent;
\* proceed: the user confirms the plan and the code; env: the environment of
\* the execution; rename_failing: the result paths whose rename raises.
\* An exception is caught by the handler of line 201 and printed.
ProcessQuery(query, intent, proceed, env, rename_failing) ==
    LET out == ExecuteOutcome(use_docker, env, sessionDir)
        reg == RegisterOutputs(out.result.output_files, query, rename_failing,
                               [artifacts |-> artifacts, counter |-> artifact_counter,
                                dir |-> out.dir, now |-> now, ids |-> <<>>,
                                created |-> <<>>, raised |-> FALSE])
        failed == NewInteraction(query, ErrorSummary(out.result.error), <<>>, now)
        done == NewInteraction(query, out.result.stdout, reg.ids, reg.now)
    IN  IF intent = "question" \/ ~proceed
        THEN /\ console' = Output("query", <<>>,
                                  IF intent = "question" THEN "answer" ELSE "declined",
                                  <<>>)
             /\ UNCHANGED <<sessionVars, execVars>>
        ELSE /\ construction.ok
             /\ result' = out.result
             /\ run' = out.run
             /\ sandboxes' = sandboxes \cup
                    TemporaryDirectoryExit(SandboxTree(env, out.run.moved), out.run)
             /\ UNCHANGED <<use_docker, construction, disk>>
             /\ IF out.result.kind = "raised"
                THEN /\ console' = Output("query", <<>>, "unexpected_error", <<>>)
                     /\ sessionDir' = out.dir
                     /\ UNCHANGED <<interactions, artifacts, artifact_counter, now,
                                    ret, createdIds, added>>
                ELSE IF ~out.result.success
                THEN /\ console' = Output("query", <<>>, "execution_failed", <<>>)
                     /\ sessionDir' = out.dir
                     /\ interactions' = TrimHistory(Append(interactions, failed))
                     /\ added' = Append(added, failed)
                     /\ now' = now + 1
                     /\ ret' = Ret("add_interaction", "ok", "-")
                     /\ UNCHANGED <<artifacts, artifact_counter, createdIds>>
                ELSE /\ sessionDir' = reg.dir
                     /\ artifacts' = reg.artifacts
                     /\ artifact_counter' = reg.counter
                     /\ createdIds' = createdIds \o reg.created
                     /\ IF reg.raised
                        THEN /\ console' = Output("query", <<>>, "unexpected_error", <<>>)
                             /\ now' = reg.now
                             /\ ret' = Ret("create_artifact", "ok", "-")
                             /\ UNCHANGED <<interactions, added>>
                        ELSE /\ console' = Output("query", <<>>, "success", <<>>)
                             /\ interactions' = TrimHistory(Append(interactions, done))
                             /\ added' = Append(added, done)
                             /\ now' = reg.now + 1
                             /\ ret' = Ret("add_interaction", "ok", "-")

\* the rows of the artifact table of list_session_info, lines 227-235
ArtifactRows(arts, dir) ==
    [i \in DOMAIN arts |->
        [index |-> i, id |-> arts[i].value.id,
         filename |-> PathName(arts[i].value.path),
         status |-> IF PathExists(arts[i].value.path, dir)
                    THEN "Available" ELSE "Missing"]]

\* list_session_info
ListSessionInfo ==
    /\ console' = Output("list", ArtifactRows(artifacts, sessionDir),
                         IF artifacts = EmptyDict THEN "No artifacts generated yet." ELSE "",
                         <<>>)
    /\ UNCHANGED <<sessionVars, execVars>>

\* artifacts[int(choice) - 1] of a Python list: the position, with -1 for
\* the last element; 0 when int() or the indexing raises
ChosenPosition(choice, n) ==
    IF ~IsDecimal(choice) THEN 0
    ELSE IF IntOf(choice) = 0 THEN n
    ELSE IF IntOf(choice) <= n THEN IntOf(choice) ELSE 0

\* mutant of ExportOutcome: the backing file is not looked at before the
\* conversion, which then raises FileNotFoundError
ExportOutcome_WithoutExistsCheck(choice, target_format, convert, arts, counter, dir, t) ==
    LET pos == ChosenPosition(choice, Len(arts))
        rows == ArtifactRows(arts, dir)
        same == [artifacts |-> arts, counter |-> counter, dir |-> dir, created |-> <<>>,
                 console |-> NoOutput]
    IN  IF arts = EmptyDict
        THEN [same EXCEPT !.console = Output("export", <<>>, "No artifacts to export.", choice)]
        ELSE IF pos = 0
        THEN [same EXCEPT !.console = Output("export", rows, "Invalid selection.", choice)]
        ELSE [same EXCEPT !.console = Output("export", rows, "Action failed", choice)]

\* export_artifact, lines 238-252, with the selection `choice`, the target
\* format typed, and convert: how the converter ends ("ok", or "raises"
\* before it has written the output file)
ExportOutcome(choice, target_format, convert, arts, counter, dir, t) ==
    LET pos == ChosenPosition(choice, Len(arts))
        rows == ArtifactRows(arts, dir)
        same == [artifacts |-> arts, counter |-> counter, dir |-> dir, created |-> <<>>,
                 console |-> NoOutput]
    IN  IF arts = EmptyDict
        THEN [same EXCEPT !.console = Output("export", <<>>, "No artifacts to export.", choice)]
        ELSE IF pos = 0
        THEN [same EXCEPT !.console = Output("export", rows, "Invalid selection.", choice)]
        ELSE
        LET artifact == arts[pos].value
            output_path == PathWithSuffix(artifact.path, "." \o target_format)
            id == FormatArtifactId("file", counter + 1)
            converted == [id |-> id, type |-> "file",
                          format |-> LStripDot(PathSuffix(output_path)),
                          path |-> output_path,
                          query |-> "Converted from " \o Concat(artifact.id),
                          created_at |-> t, metadata |-> EmptyDict]
        IN  IF ~PathExists(artifact.path, dir)
            THEN [same EXCEPT !.console = Output("export", rows, "missing", choice)]
            ELSE IF <<LStripDot(PathSuffix(artifact.path)), target_format>> # <<"csv", "xlsx">>
            THEN [same EXCEPT !.console = Output("export", rows, "Invalid selection.", choice)]
            ELSE IF convert = "raises"
            THEN [same EXCEPT !.console = Output("export", rows, "Action failed", choice)]
            ELSE [artifacts |-> DictSet(arts, id, converted),
                  counter |-> counter + 1,
                  dir |-> dir \cup {PathName(output_path)},
                  created |-> <<id>>,
                  console |-> Output("export", rows, "Converted successfully", choice)]

\* export_artifact
ExportArtifact(choice, target_format, convert) ==
    LET out == ExportOutcome(choice, target_format, convert, artifacts,
                             artifact_counter, sessionDir, now)
    IN  /\ console' = out.console
        /\ artifacts' = out.artifacts
        /\ artifact_counter' = out.counter
        /\ sessionDir' = out.dir
        /\ createdIds' = createdIds \o out.created
        /\ now' = now + Len(out.created)
        /\ ret' = IF out.created = <<>> THEN ret ELSE Ret("create_artifact", "ok", "-")
        /\ UNCHANGED <<interactions, disk, added, use_docker, run, result, sandboxes,
                       construction>>

\* ChatWithDataApp.save_session with the file name typed; write_ok: open()
\* and json.dump succeed.  The session file lies in the session output
\* directory; its content is kept in disk.
AppSaveSession(filename, write_ok) ==
    IF interactions = <<>>
    THEN /\ console' = Output("save", <<>>, "No activity to save.", <<>>)
         /\ UNCHANGED <<sessionVars, execVars>>
    ELSE /\ disk' = IF write_ok
                    THEN [disk EXCEPT ![filename] =
                             JsonFile(SessionData(interactions, artifacts, now))]
                    ELSE disk
         /\ now' = now + 1
         /\ ret' = Ret("save_session", IF write_ok THEN "ok" ELSE "IOError", filename)
         /\ console' = Output("save", <<>>,
                              IF write_ok THEN "Session saved" ELSE "Save failed", <<>>)
         /\ UNCHANGED <<interactions, artifacts, artifact_counter, createdIds, added,
                        execVars>>

\* sorted(list(settings.OUTPUT_DIR.glob("**/session_*.json")))
SessionFiles ==
    SelectSeq(<<"session_a.json", "session_b.json">>,
              LAMBDA f : disk[f].state # "missing")

\* ChatWithDataApp.load_session with the selection typed
AppLoadSession(choice) ==
    LET pos == ChosenPosition(choice, Len(SessionFiles))
        filepath == SessionFiles[pos]
        out == LoadSessionOutcome(disk[filepath], Manager, now)
    IN  IF SessionFiles = <<>> \/ pos = 0
        THEN /\ console' = Output("load_session", <<>>,
                                  IF SessionFiles = <<>> THEN "No saved sessions found."
                                  ELSE "Invalid selection.", choice)
             /\ UNCHANGED <<sessionVars, execVars>>
        ELSE /\ interactions' = out.interactions
             /\ artifacts' = out.artifacts
             /\ artifact_counter' = out.counter
             /\ ret' = [Ret("load_session", out.status, filepath) EXCEPT
                           !.message = LoadSessionMessage(out.status, filepath, out.cause)]
             /\ console' = IF out.status = "ok"
                           THEN Output("load_session",
                                       ArtifactRows(out.artifacts, sessionDir),
                                       "Session loaded", choice)
                           ELSE Output("load_session", <<>>, "Load failed", choice)
             /\ UNCHANGED <<disk, now, createdIds, added, execVars>>

\* a file of the session output directory is deleted from outside
RemoveFile(name) ==
    /\ name \in sessionDir
    /\ sessionDir' = sessionDir \ {name}
    /\ UNCHANGED <<sessionVars, use_docker, run, result, sandboxes, construction,
                   console>>

\* the environments of the executions of the application: the setup fails;
\* the child cannot be started; the script is killed on the timeout; the
\* script fails after it wrote table.csv; the script succeeds and leaves
\* nothing, table.csv, or chart.png and table.csv
AppEnvs ==
    {Env(FALSE, FALSE, 0, NoEnding, {}, <<>>, {}),
     Env(TRUE, FALSE, 0, NoEnding, {}, <<>>, {}),
     Env(TRUE, TRUE, CODE_EXECUTION_TIMEOUT + 1, NoEnding, {TableCsv}, <<TableCsv>>, {}),
     Env(TRUE, TRUE, 1, [exit_code |-> 1, stdout |-> "", stderr |-> "Traceback"],
         {TableCsv}, <<TableCsv>>, {}),
     Env(TRUE, TRUE, 1, [exit_code |-> 0, stdout |-> "rows: 5", stderr |-> ""],
         {}, <<>>, {}),
     Env(TRUE, TRUE, 1, [exit_code |-> 0, stdout |-> "rows: 5", stderr |-> ""],
         {TableCsv}, <<TableCsv>>, {}),
     Env(TRUE, TRUE, 1, [exit_code |-> 0, stdout |-> "", stderr |-> ""],
         {ChartPng, TableCsv}, <<ChartPng, TableCsv>>, {})}

\* what the user may type at the prompts of export_artifact
Choices == {<<"0">>, <<"1">>, <<"2">>, <<"x">>}
TargetFormats == {"xlsx", "txt"}

SomeProcessQuery ==
    \/ \E intent \in {"question", "analysis"}, proceed \in BOOLEAN :
           /\ intent = "question" \/ ~proceed
           /\ ProcessQuery("q1", intent, proceed, CHOOSE e \in AppEnvs : TRUE, {})
    \/ \E env \in AppEnvs :
           \E rename_failing \in
                  {{}} \cup {{JoinPath(SessionOutputDir, f.name)} : f \in env.written} :
               ProcessQuery("q1", "analysis", TRUE, env, rename_failing)

SomeExportArtifact ==
    \E choice \in Choices, target_format \in TargetFormats,
       convert \in {"ok", "raises"} :
        ExportArtifact(choice, target_format, convert)

\* --------------------------------------------------------- specifications
\* One SessionManager whose session files are all written by save_session;
\* the executor is constructed with the default USE_DOCKER_EXECUTION = False.
Init ==
    /\ ManagerInit
    /\ console = NoOutput
    /\ disk = [f \in FileNames |-> MissingFile]
    /\ CodeExecutorInit(USE_DOCKER_EXECUTION, "version_printed")

Next ==
    \/ now < MaxClock /\ SomeCreateArtifact
    \/ now < MaxClock /\ SomeAddInteraction
    \/ now < MaxClock /\ \E f \in FileNames : SaveSession(f)
    \/ now < MaxClock /\ \E f \in FileNames : SaveSessionFails(f)
    \/ \E f \in FileNames : LoadSession(f)

Spec == Init /\ [][Next]_vars

\* Session documents that were not written by this run: left by a run under
\* another configuration, edited, or damaged.
ExtInteractionDict(k) ==
    [query |-> "q2", plan |-> "plan", code |-> "code", result_summary |-> "summary",
     artifacts |-> <<>>, timestamp |-> k]

ExtArtifactDict(aid) ==
    [id |-> aid, type |-> "chart", format |-> "png",
     path |-> <<"/", "outputs", "/", "old.png">>, query |-> "q2",
     created_at |-> 0, metadata |-> EmptyDict]

ExtItem(aid) == [key |-> aid, value |-> ExtArtifactDict(aid)]

\* a well-formed document holding chart_007
DocValid ==
    JsonFile([interactions |-> <<ExtInteractionDict(1)>>,
              artifacts |-> <<ExtItem(FormatArtifactId("chart", 7))>>,
              saved_at |-> 0])

\* the second interaction entry lacks required fields
DocBadInteraction ==
    JsonFile([interactions |-> <<ExtInteractionDict(1), [query |-> "q2"]>>,
              artifacts |-> <<ExtItem(FormatArtifactId("chart", 7))>>,
              saved_at |-> 0])

\* the second artifact entry has no path
DocBadArtifact ==
    JsonFile([interactions |-> <<ExtInteractionDict(1)>>,
              artifacts |->
                  <<ExtItem(FormatArtifactId("chart", 7)),
                    [key |-> FormatArtifactId("chart", 8),
                     value |-> [id |-> FormatArtifactId("chart", 8), type |-> "chart"]]>>,
              saved_at |-> 0])

\* the artifact key has no numeric suffix
DocBadId ==
    JsonFile([interactions |-> <<ExtInteractionDict(1)>>,
              artifacts |-> <<ExtItem(<<"chart", "_", "x">>)>>,
              saved_at |-> 0])

\* one interaction more than HISTORY_LIMIT, as saved by a run configured with
\* a larger HISTORY_LIMIT
DocLong ==
    JsonFile([interactions |-> [k \in 1..(HISTORY_LIMIT + 1) |-> ExtInteractionDict(k)],
              artifacts |-> <<>>,
              saved_at |-> 0])

ExternalFiles ==
    {GarbageFile, DocValid, DocBadInteraction, DocBadArtifact, DocBadId, DocLong}

\* One SessionManager that loads session files it finds on the disk:
\* session_a.json holds any of the external documents, session_b.json is
\* missing.
InitDisk ==
    /\ ManagerInit
    /\ console = NoOutput
    /\ \E x \in ExternalFiles :
          disk = [f \in FileNames |-> IF f = "session_a.json" THEN x ELSE MissingFile]
    /\ CodeExecutorInit(USE_DOCKER_EXECUTION, "version_printed")

NextDisk ==
    \/ now < MaxDiskClock /\ SomeCreateArtifact
    \/ now < MaxDiskClock /\ SomeAddInteraction
    \/ \E f \in FileNames : LoadSession(f)

SpecDisk == InitDisk /\ [][NextDisk]_vars

\* The Interaction Log of a fresh manager under add_interaction calls alone.
NextLog == Len(added) < MaxAdds /\ SomeAddInteraction

SpecLog == Init /\ [][NextLog]_vars

\* One CodeExecutor, constructed with either backend, and the session output
\* directory its calls fill.
InitExec ==
    /\ ManagerInit
    /\ console = NoOutput
    /\ disk = [f \in FileNames |-> MissingFile]
    /\ \E preference \in BOOLEAN : CodeExecutorInit(preference, "version_printed")

NextExec ==
    \/ ExecuteSetupFails
    \/ ExecuteLaunchFails
    \/ ExecuteRuns

SpecExec == InitExec /\ [][NextExec]_vars

\* A freshly constructed registry on which only create_artifact is called,
\* with the three artifact types in any mix.
CreateInputs ==
    ArtifactInputs \cup {<<"file", "xlsx", MkPath(<<"/", "outputs", "table.xlsx">>)>>}

CreateOnFresh ==
    /\ Len(createdIds) < MaxCreates
    /\ \E a \in CreateInputs : CreateArtifact(a[1], a[2], a[3], "q1")

NextCreate == CreateOnFresh

SpecCreate == Init /\ [][NextCreate]_vars

\* The application: queries, listings, exports, and backing files of
\* artifacts deleted from outside.
InitApp == Init

NextApp ==
    \/ now < MaxAppClock /\ SomeProcessQuery
    \/ ListSessionInfo
    \/ now < MaxAppClock /\ SomeExportArtifact
    \/ \E a \in Range(artifacts) : RemoveFile(PathName(a.value.path))

SpecApp == InitApp /\ [][NextApp]_vars

\* The application with session files: queries whose script writes
\* table.csv and exits with 0 or 1, exports to xlsx, saves to session_a.json
\* and loads.
SessionEnvs ==
    {Env(TRUE, TRUE, 1, [exit_code |-> 1, stdout |-> "", stderr |-> "Traceback"],
         {TableCsv}, <<TableCsv>>, {}),
     Env(TRUE, TRUE, 1, [exit_code |-> 0, stdout |-> "rows: 5", stderr |-> ""],
         {TableCsv}, <<TableCsv>>, {})}

NextSession ==
    \/ now < MaxSessionClock /\ \E env \in SessionEnvs :
           \E rename_failing \in {{}, {JoinPath(SessionOutputDir, "table.csv")}} :
               ProcessQuery("q1", "analysis", TRUE, env, rename_failing)
    \/ now < MaxSessionClock /\ \E choice \in {<<"1">>, <<"2">>} :
           ExportArtifact(choice, "xlsx", "ok")
    \/ now < MaxSessionClock /\ \E write_ok \in BOOLEAN :
           AppSaveSession("session_a.json", write_ok)
    \/ \E choice \in {<<"1">>, <<"x">>} : AppLoadSession(choice)

SpecSession == InitApp /\ [][NextSession]_vars

\* One call of execute whose child exits in time, over every output area of
\* OutputAreas, every order of listing and every single failing move.
ExecuteCollects ==
    /\ result.kind = "none"
    /\ \E e \in ChildEndings, w \in OutputAreas :
           \E l \in Listings(w), f \in {{}} \cup {{x} : x \in {y \in w : y.is_file}} :
               Execute(Env(TRUE, TRUE, 1, e, w, l, f))

NextCollect == ExecuteCollects

\* the scripts of at most MaxScriptLen tokens
Scripts == UNION {[1..n -> ScriptTokens] : n \in 0..MaxScriptLen}

\* One call of execute, on either backend, with any script of Scripts.
ExecuteScript ==
    /\ result.kind = "none"
    /\ \E code \in Scripts :
           Execute([Env(TRUE, TRUE, 1, [exit_code |-> 0, stdout |-> "", stderr |-> ""],
                        {}, <<>>, {}) EXCEPT !.code = code])

NextScript == ExecuteScript

SpecScript == InitExec /\ [][NextScript]_vars

\* Every construction of the executor, followed by calls of execute.
InitBackend ==
    /\ ManagerInit
    /\ console = NoOutput
    /\ disk = [f \in FileNames |-> MissingFile]
    /\ \E preference \in BOOLEAN, probe \in ProbeOutcomes :
           CodeExecutorInit(preference, probe)

\* the child was started and left at most one file
ExecuteRunsBriefly ==
    \E d \in Durations, e \in ChildEndings, w \in {{}, {ChartPng}, {TableCsv}} :
        \E l \in Listings(w) : Execute(Env(TRUE, TRUE, d, e, w, l, {}))

NextBackend ==
    \/ ExecuteSetupFails
    \/ ExecuteLaunchFails
    \/ ExecuteRunsBriefly

SpecBackend == InitBackend /\ [][NextBackend]_vars

SpecCollect == InitExec /\ [][NextCollect]_vars

\* ------------------------------------------------------------------ claims
Last(s) == s[Len(s)]

LoadSucceeded == ret.op = "load_session" /\ ret.status = "ok"

\* every artifact of the registry is stored under its own identifier, and no
\* two artifacts carry the same identifier
RegistryIdsUnique ==
    \A i, j \in DOMAIN artifacts :
        /\ artifacts[i].key = artifacts[i].value.id
        /\ artifacts[i].value.id = artifacts[j].value.id => i = j

\* a create_artifact step returns an identifier the registry did not hold, so
\* the registry grows by that one artifact
CreateGetsFreshId ==
    ret'.op = "create_artifact" =>
        /\ ~DictHas(artifacts, Last(createdIds'))
        /\ Len(artifacts') = Len(artifacts) + 1

\* C1: over any sequence of create_artifact, save_session and load_session
\* calls, no two artifacts of the registry share an identifier, and a created
\* artifact never gets the identifier of an artifact the registry holds, in
\* particular of one restored by load_session.
C1_UniqueIdentifiers == []RegistryIdsUnique /\ [][CreateGetsFreshId]_vars

\* C1 witness: chart_001 was created and saved, a second artifact was created,
\* the load restored the registry to chart_001 alone, and the create after the
\* load registered chart_002 next to the restored chart_001.
C1_Witness ==
    /\ ret.op = "create_artifact"
    /\ Len(createdIds) = 3
    /\ DictKeys(artifacts) = {FormatArtifactId("chart", 1), FormatArtifactId("chart", 2)}

\* C2: create_artifact never returns an identifier that an earlier
\* create_artifact call of the same process returned.
C2_NeverReusesIdentifier ==
    \A i, j \in DOMAIN createdIds : createdIds[i] = createdIds[j] => i = j

FreshManager == [interactions |-> <<>>, artifacts |-> EmptyDict, counter |-> 0]

\* C4: loading the document that save_session has just written, into this
\* manager or into a fresh one, succeeds and yields interactions and artifacts
\* equal to the saved ones field for field, paths included.
C4_RoundTripLossless ==
    (ret.op = "save_session" /\ ret.status = "ok") =>
        \A m \in {Manager, FreshManager} :
            LET out == LoadSessionOutcome(disk[ret.file], m, now)
            IN  /\ out.status = "ok"
                /\ out.interactions = interactions
                /\ out.artifacts = artifacts

\* C4 witness: a session with an artifact and an interaction that lists it
\* has been saved.
C4_Witness ==
    /\ ret.op = "save_session" /\ ret.status = "ok"
    /\ artifacts # EmptyDict
    /\ \E i \in DOMAIN interactions : interactions[i].artifacts # <<>>

\* C5: a load_session call that fails leaves interactions, artifacts and the
\* counter as they were before the call.
C5_FailedLoadLeavesState ==
    [][(ret'.op = "load_session" /\ ret'.status # "ok") =>
          /\ interactions' = interactions
          /\ artifacts' = artifacts
          /\ artifact_counter' = artifact_counter]_vars

\* C6: the Interaction Log never holds more than HISTORY_LIMIT interactions.
C6_LogWithinLimit == Len(interactions) <= HISTORY_LIMIT

Min(a, b) == IF a <= b THEN a ELSE b

\* C7: after n add_interaction calls on a fresh log, the log holds exactly the
\* last min(n, HISTORY_LIMIT) added interactions, in the order they were added.
C7_LogIsRecentSuffix ==
    /\ Len(interactions) = Min(Len(added), HISTORY_LIMIT)
    /\ \A i \in DOMAIN interactions :
          interactions[i] = added[Len(added) - Len(interactions) + i]

\* C7 witness: two more interactions than the limit were added, so the head
\* was dropped twice.
C7_Witness ==
    /\ ret.op = "add_interaction"
    /\ Len(added) = HISTORY_LIMIT + 2
    /\ Len(interactions) = HISTORY_LIMIT

TimedOut == run.child \in {"exited", "killed"} /\ run.elapsed > BackendTimeout(use_docker)

\* C8: on either backend, a child that exceeds the timeout of the backend is
\* killed, execute returns success=false with the timeout error and an empty
\* output mapping, and the call leaves the session output directory as it was.
C8_TimeoutDiscardsOutputs ==
    /\ [](TimedOut =>
            /\ result.kind = "result"
            /\ result.success = FALSE
            /\ result.error = TimeoutError(use_docker)
            /\ result.output_files = EmptyDict
            /\ run.child = "killed")
    /\ [][TimedOut' => sessionDir' = sessionDir]_vars

\* C8 witness: the child was killed on a timeout after it had written
\* chart.png, and the session output directory does not hold chart.png.
C8_Witness ==
    /\ TimedOut
    /\ ChartPng \in run.written
    /\ "chart.png" \notin sessionDir

\* C9: whenever the child was launched and ran to completion, with any exit
\* code, the result of execute has no error.
C9_NoErrorWhenChildCompleted ==
    run.child = "exited" => (result.kind = "result" /\ result.error = None)

\* C10: success=true implies that the child exited with status zero, and a
\* child that exited non-zero yields success=false, no error, and the stderr of
\* the child.
C10_SuccessMeansExitZero ==
    /\ (result.kind = "result" /\ result.success) =>
           (run.child = "exited" /\ run.exit_code = 0)
    /\ (run.child = "exited" /\ run.exit_code # 0) =>
           /\ result.kind = "result"
           /\ result.success = FALSE
           /\ result.error = None
           /\ result.stderr = run.stderr

\* an execute call has ended, by a return or by an exception
CallEnded == result.kind \in {"result", "raised"}

\* the names of the regular files the child of the last call wrote
WrittenFileNames == {f.name : f \in {g \in run.written : g.is_file}}

C12_SetupFailureIsAResult ==
    (CallEnded /\ ~run.setup_ok) =>
        /\ result.kind = "result"
        /\ result.success = FALSE
        /\ result.error # None

\* C13: when the move of one output file fails during collection, every
\* other regular file of the output area is still moved to the destination
\* and recorded under its classification in the mapping execute returns.
C13_CollectionContinuesAfterFailedMove ==
    (run.child = "exited" /\ run.failing # {}) =>
        /\ result.kind = "result"
        /\ \A f \in run.written :
               (f.is_file /\ f \notin run.failing) =>
                   /\ f.name \in run.moved
                   /\ f.name \in sessionDir
                   /\ DictHas(result.output_files, Classify(f.suffix))

\* the extension of an entry with its letters in lower case
Extension(f) ==
    CASE f.suffix \in {".png", ".PNG"} -> ".png"
      [] f.suffix \in {".jpg", ".JPG"} -> ".jpg"
      [] OTHER -> f.suffix

\* the classification the fixed table gives to an extension
ClassOfExtension(ext) ==
    CASE ext \in {".png", ".jpg"} -> "chart"
      [] ext \in {".csv", ".xlsx"} -> "table"
      [] OTHER -> "file"

\* the regular files the child of the last call wrote
WrittenFiles == {f \in run.written : f.is_file}

\* C14: the classification of an output file is a function of its extension
\* alone: .png and .jpg give chart, .csv and .xlsx give table, every other
\* extension or none gives file; files with the same extension get the same
\* classification whatever their names, and the mapping execute returns files
\* each recorded path under that classification.
C14_ClassifiedByExtension ==
    /\ \A f \in WrittenFiles : Classify(f.suffix) = ClassOfExtension(Extension(f))
    /\ \A f, g \in WrittenFiles :
           Extension(f) = Extension(g) => Classify(f.suffix) = Classify(g.suffix)
    /\ \A i \in DOMAIN result.output_files :
           \E f \in WrittenFiles :
               /\ result.output_files[i].value = JoinPath(SessionOutputDir, f.name)
               /\ result.output_files[i].key = ClassOfExtension(Extension(f))

\* C14 witness: one call collected table.csv, data.csv and README: two names
\* with one extension and a name without extension; the mapping has the
\* classifications table and file.
C14_Witness ==
    /\ run.written = {TableCsv, DataCsv, Readme}
    /\ run.moved = {"table.csv", "data.csv", "README"}
    /\ DictKeys(result.output_files) = {"table", "file"}

\* the positions of the listing that hold a regular file of classification k
PositionsOf(k) ==
    {i \in DOMAIN run.listing :
        run.listing[i].is_file /\ ClassOfExtension(Extension(run.listing[i])) = k}

\* a collection ran to its end without a failing move
CollectedWithoutError == run.child = "exited" /\ run.failing = {}

\* C15: after a collection without move errors every regular file of the
\* output area is in the destination under its own name and no longer in the
\* output area; the returned mapping has exactly one entry per classification
\* that occurred, pointing at the last file of that classification moved;
\* the earlier files of the classification are in the destination and not in
\* the mapping.
C15_LastFileOfClassificationWins ==
    CollectedWithoutError =>
        /\ \A f \in WrittenFiles :
               f.name \in sessionDir /\ f \notin run.output_area
        /\ result.kind = "result"
        /\ DictKeys(result.output_files) =
               {ClassOfExtension(Extension(f)) : f \in WrittenFiles}
        /\ Len(result.output_files) = Cardinality(DictKeys(result.output_files))
        /\ \A e \in Range(result.output_files) :
               e.value = JoinPath(SessionOutputDir,
                                  run.listing[SetMax(PositionsOf(e.key))].name)
        /\ \A k \in DictKeys(result.output_files) :
               \A i \in PositionsOf(k) :
                   i # SetMax(PositionsOf(k)) =>
                       /\ run.listing[i].name \in sessionDir
                       /\ \A e \in Range(result.output_files) :
                              e.value # JoinPath(SessionOutputDir, run.listing[i].name)

\* C15 witness: table.csv, chart.png and data.csv were moved in this order:
\* the mapping gives data.csv for table, and table.csv is in the destination.
C15_Witness ==
    /\ CollectedWithoutError
    /\ run.listing = <<TableCsv, ChartPng, DataCsv>>
    /\ sessionDir = {"table.csv", "chart.png", "data.csv"}
    /\ result.output_files =
           <<[key |-> "table", value |-> JoinPath(SessionOutputDir, "data.csv")],
             [key |-> "chart", value |-> JoinPath(SessionOutputDir, "chart.png")]>>

\* the probe ended in one of the ways check_docker_available answers with False
ProbeFailed ==
    /\ construction.preference
    /\ construction.probe \in {"nonzero_exit", "missing_binary", "timeout"}

\* C16: the container backend is selected only if the configured preference
\* asks for it and the probe succeeded at construction; when the preference
\* is set and the probe sees a non-zero exit, a missing binary or a timeout,
\* the probe answers false without raising, construction succeeds, and every
\* later execute call uses the local backend.
C16_ContainerOnlyWhenProbed ==
    /\ (use_docker \/ run.backend = "docker") =>
           (construction.preference /\ construction.probe = "version_printed")
    /\ ProbeFailed =>
           /\ construction.ok
           /\ ~use_docker
           /\ CallEnded => run.backend = "subprocess"

\* C16 witness: the preference asked for the container, the probe timed
\* out, and a later execute call ran its child on the local backend.
C16_Witness ==
    /\ construction.preference
    /\ construction.probe = "timeout"
    /\ construction.ok
    /\ run.child = "exited"
    /\ run.backend = "subprocess"

\* a document that cannot be parsed, or one with an interaction or artifact
\* entry that lacks a required field, or with an artifact key that has no
\* numeric suffix
Malformed(file) == file \in {GarbageFile, DocBadInteraction, DocBadArtifact, DocBadId}

\* C17: load_session on a path that does not exist fails with the not-found
\* error; on an existing but malformed document it fails with the load error
\* that names the path and the underlying cause; in neither case does it
\* return normally.
C17_LoadFailuresAreRaised ==
    ret.op = "load_session" =>
        /\ disk[ret.file].state = "missing" =>
               /\ ret.status = "FileNotFoundError"
               /\ ret.message.path = ret.file
        /\ Malformed(disk[ret.file]) =>
               /\ ret.status = "IOError"
               /\ ret.message.path = ret.file
               /\ ret.message.cause \in
                      {"JSONDecodeError", "TypeError", "KeyError", "ValueError"}

\* C17 witness: a load of the document whose second interaction entry lacks
\* required fields has failed with the load error naming session_a.json and
\* the TypeError of the constructor.
C17_Witness ==
    /\ ret.op = "load_session"
    /\ disk[ret.file] = DocBadInteraction
    /\ ret.status = "IOError"
    /\ ret.message = [text |-> "Failed to load or parse session file",
                      path |-> "session_a.json", cause |-> "TypeError"]

ThreeDigits(n) ==
    <<DigitChars[((n \div 100) % 10) + 1], DigitChars[((n \div 10) % 10) + 1],
      DigitChars[(n % 10) + 1]>>

\* C20: in a freshly constructed registry the n-th create_artifact call, for
\* any mix of types, returns the type of that call, an underscore and n
\* zero-padded to three digits; the counter grows by exactly one per create;
\* a table registered first is table_001.
C20_NthCreateGetsNumberN ==
    /\ [](/\ artifact_counter = Len(createdIds)
          /\ Len(artifacts) = Len(createdIds)
          /\ \A n \in DOMAIN createdIds :
                 /\ artifacts[n].key = createdIds[n]
                 /\ createdIds[n] = <<artifacts[n].value.type, "_">> \o ThreeDigits(n)
          /\ (createdIds # <<>> /\ artifacts[1].value.type = "table") =>
                 createdIds[1] = <<"table", "_", "0", "0", "1">>)
    /\ [][artifact_counter' = artifact_counter + 1]_vars

\* C20 witness: ten artifacts were created on a fresh registry; the first, a
\* table, got table_001 and the tenth, a file, got file_010.
C20_Witness ==
    /\ Len(createdIds) = 10
    /\ createdIds[1] = <<"table", "_", "0", "0", "1">>
    /\ createdIds[2] = <<"chart", "_", "0", "0", "2">>
    /\ createdIds[10] = <<"file", "_", "0", "1", "0">>

\* the position of the registry that the selection of the last export names
Selected == ChosenPosition(console.choice, Len(artifacts))

\* the backing file of the artifact at a position is not on the disk
BackingFileMissing(pos) == ~PathExists(artifacts[pos].value.path, sessionDir)

\* C18: the registry never removes an artifact because its backing file
\* disappeared: no step takes an artifact out of the registry; a listing has
\* one row per artifact of the registry and reports Missing exactly for those
\* whose file is gone; an export of an artifact whose file is gone reports
\* the missing file and leaves registry, counter and directory as they were.
C18_MissingFileKeepsArtifact ==
    /\ [][DictKeys(artifacts) \subseteq DictKeys(artifacts')]_vars
    /\ [][(console'.command = "list" /\ sessionDir' = sessionDir) =>
              /\ Len(console'.rows) = Len(artifacts)
              /\ \A i \in DOMAIN artifacts :
                     /\ console'.rows[i].id = artifacts[i].key
                     /\ console'.rows[i].status =
                            IF BackingFileMissing(i) THEN "Missing" ELSE "Available"]_vars
    /\ [][(/\ console'.command = "export"
            /\ sessionDir \subseteq sessionDir'
            /\ ChosenPosition(console'.choice, Len(artifacts)) # 0
            /\ BackingFileMissing(ChosenPosition(console'.choice, Len(artifacts)))) =>
              /\ console'.message = "missing"
              /\ artifacts' = artifacts
              /\ artifact_counter' = artifact_counter
              /\ createdIds' = createdIds
              /\ sessionDir' = sessionDir]_vars

\* C18 witness: the file of a registered table was deleted from outside;
\* the export of that artifact reported the missing file, its listing shows
\* the artifact as Missing, and the registry still holds it as its only
\* artifact.
C18_Witness ==
    /\ console.command = "export"
    /\ console.message = "missing"
    /\ Len(artifacts) = 1
    /\ Selected = 1
    /\ artifacts[1].value.type = "table"
    /\ BackingFileMissing(1)
    /\ console.rows[1].status = "Missing"
    /\ createdIds = <<artifacts[1].key>>

\* the number of positions of a text that hold a token of a set
Occurrences(text, tokens) == Cardinality({i \in DOMAIN text : text[i] \in tokens})

\* C21: path rewriting happens on the local backend only: there every
\* placeholder reference to /data/ or /output/ in the script text is
\* replaced by the absolute path of the sandbox input or output area before
\* the script is written; the container backend writes the text unchanged.
C21_EveryPlaceholderRewrittenLocallyOnly ==
    (CallEnded /\ run.setup_ok) =>
        IF run.backend = "subprocess"
        THEN /\ Occurrences(run.script, Placeholders) = 0
             /\ Occurrences(run.script, {DataDir}) = Occurrences(run.code, {"/data/"})
             /\ Occurrences(run.script, {OutputDir}) = Occurrences(run.code, {"/output/"})
        ELSE run.script = run.code

\* the step is a process_query that ran the script, and the execution failed
\* by a non-zero exit, a timeout or a launch error
FailedQueryStep ==
    /\ console'.command = "query"
    /\ console'.message \notin {"answer", "declined"}
    /\ sessionDir \subseteq sessionDir'
    /\ \/ run'.child \in {"killed", "not_launched"}
       \/ run'.child = "exited" /\ run'.exit_code # 0

\* C22: process_query registers artifacts only for an execution with
\* success=true; when the execution fails by a non-zero exit, a timeout or a
\* launch error, registry and counter are unchanged and exactly one
\* interaction with an empty artifact list is appended, whether or not output
\* files of the failing script were moved into the session directory.
C22_FailedQueryRegistersNothing ==
    /\ [][(console'.command = "query" /\ artifacts' # artifacts) =>
              (result'.kind = "result" /\ result'.success)]_vars
    /\ [][FailedQueryStep =>
              /\ result'.kind = "result" /\ ~result'.success
              /\ artifacts' = artifacts
              /\ artifact_counter' = artifact_counter
              /\ createdIds' = createdIds
              /\ Len(added') = Len(added) + 1
              /\ SubSeq(added', 1, Len(added)) = added
              /\ Last(added').artifacts = <<>>
              /\ Last(interactions') = Last(added')]_vars

\* C22 witness: the script of a query wrote table.csv and exited with 1;
\* table.csv is in the session directory, the registry is empty, its counter
\* is 0, and the one interaction logged lists no artifacts.
C22_Witness ==
    /\ console = Output("query", <<>>, "execution_failed", <<>>)
    /\ run.child = "exited" /\ run.exit_code = 1
    /\ "table.csv" \in sessionDir
    /\ artifacts = EmptyDict
    /\ artifact_counter = 0
    /\ Len(added) = 1
    /\ added[1].artifacts = <<>>

\* C23: in every state reachable through process_query, export_artifact,
\* save_session and load_session, no two distinct artifacts of the registry
\* have the same backing file path.
C23_BackingPathsDistinct ==
    \A i, j \in DOMAIN artifacts :
        i # j => artifacts[i].value.path # artifacts[j].value.path

\* C24: in every state reachable through process_query, export_artifact,
\* save_session and load_session of documents written by save_session, every
\* artifact identifier listed in an interaction of the log is a key of the
\* registry, and the artifact stored under a key has that key as its id.
C24_LoggedIdsAreRegistryKeys ==
    /\ \A k \in DOMAIN interactions :
           \A n \in DOMAIN interactions[k].artifacts :
               interactions[k].artifacts[n] \in DictKeys(artifacts)
    /\ \A i \in DOMAIN artifacts : artifacts[i].value.id = artifacts[i].key

\* C24 witness: a session document written by save_session has just been
\* loaded; the registry holds two artifacts, and the log holds an interaction
\* that lists an artifact.
C24_Witness ==
    /\ console.command = "load_session"
    /\ console.message = "Session loaded"
    /\ ret.op = "load_session"
    /\ Len(artifacts) = 2
    /\ \E k \in DOMAIN interactions : interactions[k].artifacts # <<>>

====
